---- MODULE Spec2Model ----
(***************************************************************************)
(* GaLore gradient low-rank projection (galore/matrix_ops.rs):             *)
(* GaLoreProjection, the Adam base optimizer and GaLoreOptimizer::step.    *)
(*                                                                         *)
(* Tensors are abstracted to their shape (r rows, c columns) and a value   *)
(* summary.  A basis matrix carries one integer v, the common factor of    *)
(* its entries in fixed point (Scale = 1.0), so the elementwise blend of   *)
(* ema_update is exact arithmetic on v.  A gradient carries the id of its  *)
(* content; the external SVD is a function of that id.  A reduced tensor   *)
(* carries the operands it was computed from (p, g, q), an Adam moment the *)
(* sequence of reduced gradients folded into it since its zero fill, an    *)
(* update the time step and moments it was computed from.                  *)
(*                                                                         *)
(* The sum in ema_update broadcasts its operands as ndarray does: two axis  *)
(* lengths agree when they are equal or one of them is 1.                  *)
(*                                                                         *)
(* A panic (slice out of bounds, shape mismatch in a product or a          *)
(* broadcast, remainder by zero) unwinds through the caller: pc becomes    *)
(* "panicked", what the call had already assigned stays, nothing runs      *)
(* after it.                                                               *)
(***************************************************************************)
EXTENDS Integers, Sequences, FiniteSets, TLC

\* ---------------------------------------------------------------- bounds
MaxCalls == 3
MaxSlots == 2
EmaDen == 2

\* ema_decay = n / EmaDen for n in EmaNums: no smoothing, and the grid's strongest
EmaNums == {0, EmaDen - 1}
RECURSIVE Pow(_, _)
Pow(b, e) == IF e = 0 THEN 1 ELSE b * Pow(b, e - 1)
\* fixed-point one: every blend of at most MaxCalls refreshes is exact
Scale == Pow(EmaDen, MaxCalls)

Ranks == 1..3
Freqs == 0..3
Shapes == {<<1, 1>>, <<2, 2>>, <<3, 2>>}
GradIds == {1, 2}
Modes == {"projector", "optimizer"}

VARIABLES
    mode,         \* which object the caller holds: a GaLoreProjection or a GaLoreOptimizer
    rank, update_freq, ema_decay,   \* GaLoreProjection fields (ema_decay as numerator over EmaDen)
    shapes,       \* the caller's parameter slots: <<rows, cols>> per slot, fixed
    step,         \* GaLoreProjection.step
    projections,  \* GaLoreProjection.projections: sequence of [p, q]
    m, v, t,      \* Adam.m, Adam.v, Adam.t
    pc,           \* position inside GaLoreOptimizer::step, or "panicked"
    grads,        \* the gradients argument of the latest project_gradient / step call
    reduced,      \* what the latest project_gradient returned (projected_grads)
    updates,      \* the reduced updates of the call in progress (empty when a call starts)
    ret,          \* what project_update returned to the latest call (empty when a call starts)
    lastOp,       \* the public method that returned last
    calls,        \* history: number of project_gradient invocations
    refreshes     \* history: number of completed update_projections runs

vars == <<mode, rank, update_freq, ema_decay, shapes, step, projections, m, v, t,
          pc, grads, reduced, updates, ret, lastOp, calls, refreshes>>

Min(a, b) == IF a <= b THEN a ELSE b

\* ------------------------------------------------------ dense matrix backend
\* ndarray-linalg svd(true, true): full U (rows x rows) and Vt (cols x cols)
Svd(grad) ==
    [u  |-> [r |-> grad.r, c |-> grad.r, v |-> Scale * (2 * grad.id - 1)],
     vt |-> [r |-> grad.c, c |-> grad.c, v |-> Scale * (2 * grad.id)]]

Transpose(a) == [a EXCEPT !.r = a.c, !.c = a.r]

\* slice_axis_inplace(axis, 0..rank) panics when rank exceeds the axis length
SliceOk_Clamped(len) == TRUE
SliceOk(len) == rank <= len

\* u.slice_axis_inplace(Axis(1), 0..rank)
CandU(grad) == [Svd(grad).u EXCEPT !.c = rank]
\* vt.slice_axis_inplace(Axis(0), 0..rank), then vt.t()
CandV(grad) == Transpose([Svd(grad).vt EXCEPT !.r = rank])

\* ndarray broadcasting of two axis lengths: equal, or one of them 1
BroadcastOk(a, b) == a = b \/ a = 1 \/ b = 1
BroadcastLen(a, b) == IF a = 1 THEN b ELSE a

\* ------------------------------------------------------- GaLoreProjection
EmaOk(old, new) == BroadcastOk(old.r, new.r) /\ BroadcastOk(old.c, new.c)

\* old * ema_decay + new * (1.0 - ema_decay)
EmaUpdate(old, new) ==
    [r |-> BroadcastLen(old.r, new.r),
     c |-> BroadcastLen(old.c, new.c),
     v |-> (ema_decay * old.v + (EmaDen - ema_decay) * new.v) \div EmaDen]

ComputeOk(grad, projs) ==
    /\ SliceOk(grad.r)
    /\ SliceOk(grad.c)
    /\ projs # <<>> => /\ EmaOk(projs[1].p, CandU(grad))
                       /\ EmaOk(projs[1].q, CandV(grad))

\* the blend of a cold start, were the missing prior taken as zeros
ComputeProjectionMatrices_Smoothed(grad, projs) ==
    IF projs # <<>>
    THEN [p |-> EmaUpdate(projs[1].p, CandU(grad)),
          q |-> EmaUpdate(projs[1].q, CandV(grad))]
    ELSE [p |-> EmaUpdate([CandU(grad) EXCEPT !.v = 0], CandU(grad)),
          q |-> EmaUpdate([CandV(grad) EXCEPT !.v = 0], CandV(grad))]

\* self.projections.get(0): the prior of slot 0, whatever the slot
ComputeProjectionMatrices(grad, projs) ==
    IF projs # <<>>
    THEN [p |-> EmaUpdate(projs[1].p, CandU(grad)),
          q |-> EmaUpdate(projs[1].q, CandV(grad))]
    ELSE [p |-> CandU(grad), q |-> CandV(grad)]

UpdateOk(gradients, projs) ==
    \A i \in 1..Len(gradients) : ComputeOk(gradients[i], projs)

UpdateProjections(gradients, projs) ==
    [i \in 1..Len(gradients) |-> ComputeProjectionMatrices(gradients[i], projs)]

\* p.t().dot(&grad.dot(q))
ProjectOk(grad, p, q) == grad.c = q.r /\ p.r = grad.r

Project(grad, p, q) ==
    [r |-> p.c, c |-> q.c, p |-> p.v, g |-> grad.id, q |-> q.v]

\* p.dot(&update.dot(&q.t()))
ProjectBackOk(update, p, q) == update.c = q.c /\ p.c = update.r

ProjectBack_NoColBasis(update, p, q) ==
    [r |-> p.r, c |-> update.c, p |-> p.v, q |-> q.v,
     u |-> [t |-> update.t, m |-> update.m, v |-> update.v]]

ProjectBack(update, p, q) ==
    [r |-> p.r, c |-> q.r, p |-> p.v, q |-> q.v,
     u |-> [t |-> update.t, m |-> update.m, v |-> update.v]]

\* step % update_freq == 0 || projections.is_empty(); update_freq > 0 here
NeedRefresh_NoBootstrap(s, projs) == s % update_freq = 0
NeedRefresh_Shifted(s, projs) == (s - 1) % update_freq = 0 \/ projs = <<>>
NeedRefresh(s, projs) == s % update_freq = 0 \/ projs = <<>>

\* the projections project_gradient goes on with, refreshed or carried over
NextProjections(gradients) ==
    IF NeedRefresh(step + 1, projections)
    THEN UpdateProjections(gradients, projections)
    ELSE projections

\* gradients.zip(projections): as many pairs as the shorter of the two
ZipLen(xs, projs) == Min(Len(xs), Len(projs))

ProjectGradientOk(gradients) ==
    /\ update_freq # 0
    /\ NeedRefresh(step + 1, projections) => UpdateOk(gradients, projections)
    /\ LET ps == NextProjections(gradients)
       IN  \A i \in 1..ZipLen(gradients, ps) :
               ProjectOk(gradients[i], ps[i].p, ps[i].q)

ProjectGradientResult(gradients) ==
    LET ps == NextProjections(gradients)
    IN  [i \in 1..ZipLen(gradients, ps) |-> Project(gradients[i], ps[i].p, ps[i].q)]

ProjectUpdateOk(ups, projs) ==
    \A i \in 1..ZipLen(ups, projs) : ProjectBackOk(ups[i], projs[i].p, projs[i].q)

ProjectUpdate_FirstSlotBases(ups, projs) ==
    [i \in 1..ZipLen(ups, projs) |-> ProjectBack(ups[i], projs[1].p, projs[1].q)]

ProjectUpdate(ups, projs) ==
    [i \in 1..ZipLen(ups, projs) |-> ProjectBack(ups[i], projs[i].p, projs[i].q)]

\* ------------------------------------------------------------------- Adam
\* Array2::zeros(g.dim())
Zeros(g) == [r |-> g.r, c |-> g.c, acc |-> <<>>]

\* *m = beta1 * m + (1 - beta1) * g  (and likewise v with g * g)
Fold(mom, g) == [mom EXCEPT !.acc = Append(@, [p |-> g.p, g |-> g.g, q |-> g.q])]

\* the moments reallocated on every call
ComputeUpdates_Realloc(gs, ms, vs, tt) ==
    LET m0 == [i \in 1..Len(gs) |-> Zeros(gs[i])]
        n  == Min(Len(gs), Len(m0))
        m1 == [i \in 1..Len(m0) |-> IF i <= n THEN Fold(m0[i], gs[i]) ELSE m0[i]]
    IN  [t |-> tt + 1, m |-> m1, v |-> m1,
         out |-> [i \in 1..n |->
                    [r |-> m1[i].r, c |-> m1[i].c, t |-> tt + 1,
                     m |-> m1[i].acc, v |-> m1[i].acc]]]

\* the bias correction computed before self.t is incremented
ComputeUpdates_LateIncrement(gs, ms, vs, tt) ==
    LET m0 == IF ms = <<>> THEN [i \in 1..Len(gs) |-> Zeros(gs[i])] ELSE ms
        v0 == IF ms = <<>> THEN [i \in 1..Len(gs) |-> Zeros(gs[i])] ELSE vs
        n  == Min(Len(gs), Min(Len(m0), Len(v0)))
        m1 == [i \in 1..Len(m0) |-> IF i <= n THEN Fold(m0[i], gs[i]) ELSE m0[i]]
        v1 == [i \in 1..Len(v0) |-> IF i <= n THEN Fold(v0[i], gs[i]) ELSE v0[i]]
    IN  [t |-> tt + 1, m |-> m1, v |-> v1,
         out |-> [i \in 1..n |->
                    [r |-> m1[i].r, c |-> m1[i].c, t |-> tt,
                     m |-> m1[i].acc, v |-> v1[i].acc]]]

\* Adam::compute_updates: the new t, m, v and the returned updates
ComputeUpdates(gs, ms, vs, tt) ==
    LET m0 == IF ms = <<>> THEN [i \in 1..Len(gs) |-> Zeros(gs[i])] ELSE ms
        v0 == IF ms = <<>> THEN [i \in 1..Len(gs) |-> Zeros(gs[i])] ELSE vs
        n  == Min(Len(gs), Min(Len(m0), Len(v0)))
        m1 == [i \in 1..Len(m0) |-> IF i <= n THEN Fold(m0[i], gs[i]) ELSE m0[i]]
        v1 == [i \in 1..Len(v0) |-> IF i <= n THEN Fold(v0[i], gs[i]) ELSE v0[i]]
    IN  [t |-> tt + 1, m |-> m1, v |-> v1,
         out |-> [i \in 1..n |->
                    [r |-> m1[i].r, c |-> m1[i].c, t |-> tt + 1,
                     m |-> m1[i].acc, v |-> v1[i].acc]]]

\* ------------------------------------------------------------ the callers
\* one gradient per slot, of the slot's shape, in slot order; the slots' contents
\* are all alike (d = 0) or pairwise different (d = 1)
GradientLists ==
    {[i \in 1..Len(shapes) |->
         [r |-> shapes[i][1], c |-> shapes[i][2], id |-> b + d * (i - 1)]] :
        b \in GradIds, d \in {0, 1}}

\* reduced updates a caller of project_update hands in: (rank, rank) each
UpdateLists ==
    {[i \in 1..n |-> [r |-> rank, c |-> rank, t |-> 0, m |-> <<>>, v |-> <<>>]] :
        n \in 1..MaxSlots}

Init ==
    /\ mode \in Modes
    /\ rank \in Ranks
    /\ update_freq \in Freqs
    /\ ema_decay \in EmaNums
    /\ shapes \in UNION {[1..n -> Shapes] : n \in 1..MaxSlots}
    /\ step = 0
    /\ projections = <<>>
    /\ m = <<>>
    /\ v = <<>>
    /\ t = 0
    /\ pc = "idle"
    /\ grads = <<>>
    /\ reduced = <<>>
    /\ updates = <<>>
    /\ ret = <<>>
    /\ lastOp = "none"
    /\ calls = 0
    /\ refreshes = 0

\* GaLoreProjection::project_gradient on the state of the projector
ProjectGradientBody(gradients, pcNext, opNext) ==
    /\ step' = step + 1
    /\ calls' = calls + 1
    /\ grads' = gradients
    /\ IF ProjectGradientOk(gradients)
       THEN /\ projections' = NextProjections(gradients)
            /\ refreshes' = IF NeedRefresh(step + 1, projections)
                            THEN refreshes + 1 ELSE refreshes
            /\ reduced' = ProjectGradientResult(gradients)
            /\ pc' = pcNext
            /\ lastOp' = opNext
       ELSE /\ pc' = "panicked"
            /\ UNCHANGED <<projections, refreshes, reduced, lastOp>>

\* a caller of a bare GaLoreProjection
ProjectGradient ==
    /\ mode = "projector"
    /\ pc = "idle"
    /\ calls < MaxCalls
    /\ \E gradients \in GradientLists :
           ProjectGradientBody(gradients, "idle", "project_gradient")
    /\ updates' = <<>>
    /\ ret' = <<>>
    /\ UNCHANGED <<mode, rank, update_freq, ema_decay, shapes, m, v, t>>

CallProjectUpdate ==
    /\ mode = "projector"
    /\ pc = "idle"
    /\ \E ups \in UpdateLists :
        /\ updates' = ups
        /\ IF ProjectUpdateOk(ups, projections)
           THEN /\ ret' = ProjectUpdate(ups, projections)
                /\ lastOp' = "project_update"
                /\ pc' = "idle"
           ELSE /\ pc' = "panicked"
                /\ UNCHANGED <<ret, lastOp>>
    /\ UNCHANGED <<mode, rank, update_freq, ema_decay, shapes, step, projections,
                   m, v, t, grads, reduced, calls, refreshes>>

\* GaLoreOptimizer::step, its three calls in order
StepProjectGradient ==
    /\ mode = "optimizer"
    /\ pc = "idle"
    /\ calls < MaxCalls
    /\ \E gradients \in GradientLists :
           ProjectGradientBody(gradients, "projected", lastOp)
    /\ updates' = <<>>
    /\ ret' = <<>>
    /\ UNCHANGED <<mode, rank, update_freq, ema_decay, shapes, m, v, t>>

StepComputeUpdates ==
    /\ mode = "optimizer"
    /\ pc = "projected"
    /\ LET a == ComputeUpdates(reduced, m, v, t)
       IN  /\ t' = a.t
           /\ m' = a.m
           /\ v' = a.v
           /\ updates' = a.out
    /\ pc' = "updated"
    /\ UNCHANGED <<mode, rank, update_freq, ema_decay, shapes, step, projections,
                   grads, reduced, ret, lastOp, calls, refreshes>>

StepProjectUpdate ==
    /\ mode = "optimizer"
    /\ pc = "updated"
    /\ IF ProjectUpdateOk(updates, projections)
       THEN /\ ret' = ProjectUpdate(updates, projections)
            /\ lastOp' = "step"
            /\ pc' = "idle"
       ELSE /\ pc' = "panicked"
            /\ UNCHANGED <<ret, lastOp>>
    /\ UNCHANGED <<mode, rank, update_freq, ema_decay, shapes, step, projections,
                   m, v, t, grads, reduced, updates, calls, refreshes>>

Next ==
    \/ ProjectGradient
    \/ CallProjectUpdate
    \/ StepProjectGradient
    \/ StepComputeUpdates
    \/ StepProjectUpdate

Spec == Init /\ [][Next]_vars

\* ----------------------------------------------------------------- claims
Returned == pc # "panicked"
RankTooLarge == \E i \in 1..Len(shapes) : rank > Min(shapes[i][1], shapes[i][2])

\* C1 (as stated): the bases are refreshed exactly on the calls numbered
\* 1, k+1, 2k+1, ... and are identical before and after every other call.
C1_CadenceAsStated ==
    [][(calls' = calls + 1 /\ update_freq >= 1 /\ pc' # "panicked") =>
         IF (calls' - 1) % update_freq = 0
         THEN refreshes' = refreshes + 1
         ELSE projections' = projections]_vars

\* C1 (amended): the bases are refreshed exactly on call 1 and on the calls
\* numbered k, 2k, 3k, ..., and are identical before and after every other call.
C1_RefreshCadence ==
    [][(calls' = calls + 1 /\ update_freq >= 1 /\ pc' # "panicked") =>
         IF calls' = 1 \/ calls' % update_freq = 0
         THEN refreshes' = refreshes + 1 /\ Len(projections') = Len(shapes)
         ELSE projections' = projections /\ refreshes' = refreshes]_vars

\* a call that is neither the first nor a multiple of k kept the bases of call 2 = k
C1_Witness ==
    /\ update_freq = 2 /\ calls = 3 /\ refreshes = 2 /\ Returned
    /\ pc = "idle" /\ ema_decay > 0

C3_OwnSlotSmoothing ==
    [][(refreshes' = refreshes + 1 /\ projections # <<>>) =>
         \A i \in 1..Len(projections') :
             i <= Len(projections) =>
                 /\ projections'[i].p = EmaUpdate(projections[i].p, CandU(grads'[i]))
                 /\ projections'[i].q = EmaUpdate(projections[i].q, CandV(grads'[i]))]_vars

\* C4: once compute_updates has run, Adam holds one first and one second
\* moment per slot, each (rank, rank), zero filled on the first call and
\* folded into by every call since (t reduced gradients each).
C4_AdamMoments ==
    t >= 1 =>
        /\ Len(m) = Len(shapes)
        /\ Len(v) = Len(shapes)
        /\ \A i \in 1..Len(m) :
               /\ m[i].r = rank /\ m[i].c = rank /\ Len(m[i].acc) = t
               /\ v[i].r = rank /\ v[i].c = rank /\ Len(v[i].acc) = t

C4_Witness ==
    /\ t = 2 /\ Len(m) = 2 /\ pc = "idle"
    /\ \E i \in 1..Len(shapes) : shapes[i] # <<rank, rank>>

\* C5: after the first project_gradient call every slot's bases are the
\* truncated decomposition of that slot's gradient, whatever ema_decay is.
C5_FirstCallNoSmoothing ==
    (calls = 1 /\ Returned) =>
        /\ Len(projections) = Len(grads)
        /\ \A i \in 1..Len(projections) :
               /\ projections[i].p = CandU(grads[i])
               /\ projections[i].q = CandV(grads[i])

C5_Witness ==
    /\ calls = 1 /\ Returned /\ ema_decay > 0
    /\ Len(projections) = 2 /\ grads[1].id # grads[2].id

\* C6: a step call that returns gives one tensor per input gradient, in slot
\* order, the i-th of the shape of the i-th gradient and computed from it.
C6_StepShapes ==
    (lastOp = "step" /\ pc = "idle") =>
        /\ Len(ret) = Len(grads)
        /\ \A i \in 1..Len(ret) :
               /\ ret[i].r = grads[i].r
               /\ ret[i].c = grads[i].c
               /\ ret[i].u.m[Len(ret[i].u.m)].g = grads[i].id

C6_Witness ==
    /\ lastOp = "step" /\ pc = "idle" /\ calls = 2
    /\ Len(ret) = 2 /\ shapes[1] # shapes[2]

\* C7: project_update with a non-empty list on a projector that never ran
\* project_gradient fails; it returns nothing.
C7_UninitializedFails ==
    (mode = "projector" /\ calls = 0 /\ updates # <<>>) => pc = "panicked"

\* C8: with rank greater than min(rows, cols) of some slot, no project_gradient
\* or step call returns a tensor: the first call fails before any projection,
\* no bases are stored, the rank is not clamped.
C8_RankTooLargeFails ==
    RankTooLarge =>
        /\ projections = <<>>
        /\ reduced = <<>>
        /\ ret = <<>>
        /\ calls >= 1 => pc = "panicked"

C8_Witness ==
    /\ RankTooLarge /\ calls = 1 /\ pc = "panicked" /\ update_freq >= 1
    /\ \E i \in 1..Len(shapes) : rank <= shapes[i][1]

\* C9: within one step call every slot is back-projected with the bases its
\* gradient was projected with, and compute_updates runs once in between.
C9_SameBasesWithinStep ==
    /\ (lastOp = "step" /\ pc = "idle") =>
           \A i \in 1..Len(ret) :
               /\ ret[i].p = reduced[i].p
               /\ ret[i].q = reduced[i].q
               /\ ret[i].u.m[Len(ret[i].u.m)] =
                      [p |-> reduced[i].p, g |-> reduced[i].g, q |-> reduced[i].q]
               /\ ret[i].u.t = calls
    /\ (mode = "optimizer" /\ pc = "projected") => t = calls - 1
    /\ (mode = "optimizer" /\ pc = "updated") => t = calls

C9_Witness ==
    /\ lastOp = "step" /\ pc = "idle" /\ calls = 2 /\ refreshes = 1
    /\ Len(ret) = 2 /\ ret[1].p # ret[2].p

\* C10: after n step calls that all returned, the projector's step counter
\* and Adam's t are both n, and every bias correction was computed with
\* t >= 1.
C10_Counters ==
    /\ (mode = "optimizer" /\ pc = "idle") => (step = calls /\ t = calls)
    /\ \A i \in 1..Len(updates) : mode = "optimizer" => updates[i].t >= 1

C10_Witness ==
    mode = "optimizer" /\ pc = "idle" /\ calls = 3 /\ t = 3 /\ Len(updates) = 2

====
